---- MODULE Spec2Model ----
(***************************************************************************)
(* The gradient-sculpting trainer ("The Gradient Puzzle").                 *)
(*                                                                         *)
(* The repository holds three copies of the trainer:                       *)
(*   "docs"  src/docs/app.js                (one optimizer, strict          *)
(*                                           createStudentModel)            *)
(*   "p0a"   src/unnamed/part_000:1-413     (one optimizer, createStudent-  *)
(*                                           Model without the final throw) *)
(*   "p0b"   src/unnamed/part_000:415-794   (two optimizers)                *)
(* The copy is chosen in Init and never changes.                           *)
(*                                                                         *)
(* JavaScript is single threaded: a handler runs to its first await (or to *)
(* its end) without interleaving, so each action below is one such run.    *)
(* The continuation of an await (tf.browser.toPixels inside render) is an  *)
(* action of its own.  Exceptions of TensorFlow.js calls are inputs of the *)
(* environment, drawn with \E.                                             *)
(***************************************************************************)
EXTENDS Integers, Sequences, FiniteSets, Bags, TLC

VARIABLES variant, state, radio, heap, timers, renders, logged, call

vars == <<variant, state, radio, heap, timers, renders, logged, call>>

\* ---------------------------------------------------------------- bounds
MaxStep    == 5   \* trainStep invocations between two resets
MaxGen     == 2   \* resetModels calls (the one of init included)
MaxTimers  == 2   \* pending setTimeout(loop) callbacks
MaxRenders == 2   \* render() activations awaiting toPixels
MaxPending == 3   \* pending timer callbacks and awaiting renders together
MaxFaults  == 1   \* trainStep invocations that throw, between two resets
MaxPixel   == 2   \* pixel values 0..MaxPixel
MaxLen     == 3   \* elements of a tensor handed to a histogram term
MaxSide    == 2   \* rows and columns of an image handed to studentLoss
MaxDraw    == 1   \* outcomes 0..MaxDraw of one unseeded random draw
MaxModels  == 3   \* createModel calls of the Titanic page that build a model
MaxFits    == 2   \* trainModel calls of the Titanic page awaiting model.fit

\* ------------------------------------------------------------- constants
Variants == {"docs", "p0a", "p0b"}
Tags     == {"compression", "transformation", "expansion"}
UnknownTag == "unknown"
NoRadio  == "none"            \* querySelector(':checked') returns null
RadioValues == Tags \cup {UnknownTag}

NullRef == [gen |-> 0, slot |-> "null"]
Ref(g, s) == [gen |-> g, slot |-> s]

Dense(u, a) == [units |-> u, activation |-> a]

\* ------------------------------------------------------------ the models
createBaselineModel ==
  <<Dense(64, "relu"), Dense(256, "sigmoid")>>

createStudentModel(v, archType) ==
  IF archType = "compression" THEN
       [throws |-> FALSE, message |-> "",
        layers |-> IF v = "p0b"
                     THEN <<Dense(64, "relu"), Dense(256, "sigmoid")>>
                     ELSE <<Dense(128, "relu"), Dense(256, "sigmoid")>>]
  ELSE IF archType = "transformation" THEN
       [throws |-> FALSE, message |-> "",
        layers |-> <<Dense(256, "relu"), Dense(256, "sigmoid")>>]
  ELSE IF archType = "expansion" THEN
       [throws |-> FALSE, message |-> "",
        layers |-> IF v = "p0b"
                     THEN <<Dense(512, "relu"), Dense(384, "relu"),
                            Dense(256, "sigmoid")>>
                     ELSE <<Dense(512, "relu"), Dense(512, "relu"),
                            Dense(256, "sigmoid")>>]
  ELSE IF v = "p0a" THEN
       \* no else branch: flatten and reshape only, nothing is thrown
       [throws |-> FALSE, message |-> "", layers |-> <<>>]
  ELSE [throws |-> TRUE,
        message |-> "Unknown architecture type: " \o archType,
        layers |-> <<>>]

\* CONFIG.inputShapeModel, the inputShape of the flatten layer every model
\* starts with
inputShapeModel == <<16, 16, 1>>

\* tf.layers.flatten: the product of the dimensions of its input
flatten(shape) == shape[1] * shape[2] * shape[3]

\* tf.sequential: a layer added takes the output of the layer before it, the
\* first dense layer that of the flatten layer.
inputDim(layers, i) ==
  IF i = 1 THEN flatten(inputShapeModel) ELSE layers[i - 1].units

\* ------------------------------------------------------ the loss terms
\* Tensor values are exact fractions in lowest terms, so that equal values
\* are equal records.
RECURSIVE gcd(_, _)
gcd(a, b) == IF b = 0 THEN a ELSE gcd(b, a % b)

abs(n) == IF n < 0 THEN -n ELSE n

Q(n, d) ==
  LET g == gcd(abs(n), d) IN [num |-> n \div g, den |-> d \div g]

add(a, b) == Q(a.num * b.den + b.num * a.den, a.den * b.den)

\* a.mul(k) for the literal k = n/d
mul(a, n, d) == Q(a.num * n, a.den * d)

RECURSIVE sum(_)
sum(s) == IF s = <<>> THEN 0 ELSE Head(s) + sum(Tail(s))

\* tf.mean of a tensor given by its elements
mean(s) == Q(sum(s), Len(s))

\* A tensor of shape [1, H, W, 1] is the sequence of its H rows;
\* reshape([-1]) lists the elements row by row.
RECURSIVE reshapeFlat(_)
reshapeFlat(t) ==
  IF t = <<>> THEN <<>> ELSE Head(t) \o reshapeFlat(Tail(t))

\* Tensor.sort(): ascending
RECURSIVE insert(_, _)
insert(x, s) ==
  IF s = <<>> THEN <<x>>
  ELSE IF x <= Head(s) THEN <<x>> \o s
  ELSE <<Head(s)>> \o insert(x, Tail(s))

\* sort that leaves the elements in place
sort_asIs(s) == s

RECURSIVE sort(_)
sort(s) == IF s = <<>> THEN <<>> ELSE insert(Head(s), sort(Tail(s)))

\* tf.losses.meanSquaredError on the elements of two tensors
meanSquaredError(a, b) ==
  mean([i \in 1..Len(a) |-> (a[i] - b[i]) * (a[i] - b[i])])

mse(yTrue, yPred) ==
  meanSquaredError(reshapeFlat(yTrue), reshapeFlat(yPred))

\* mean(abs(diffX)) + mean(abs(diffY)): differences of every pixel to its
\* right neighbour and to the one below
totalVariation(yPred) ==
  LET H == Len(yPred)
      W == Len(yPred[1])
      diffX == [k \in 1..(H * (W - 1)) |->
                  LET i == ((k - 1) \div (W - 1)) + 1
                      j == ((k - 1) % (W - 1)) + 1
                  IN abs(yPred[i][j] - yPred[i][j + 1])]
      diffY == [k \in 1..((H - 1) * W) |->
                  LET i == ((k - 1) \div W) + 1
                      j == ((k - 1) % W) + 1
                  IN abs(yPred[i][j] - yPred[i + 1][j])]
  IN add(mean(diffX), mean(diffY))

\* smoothness: the total variation, times 20 inside the helper in the
\* second copy of part_000
smoothness(v, yPred) ==
  IF v = "p0b" THEN mul(totalVariation(yPred), 20, 1)
               ELSE totalVariation(yPred)

\* mean(yPred * mask) for mask = tf.linspace(-1, 1, n) along the columns
\* (byColumn) or the rows: element k of linspace is -1 + 2(k-1)/(n-1)
rampCorrelation(yPred, byColumn) ==
  LET H == Len(yPred)
      W == Len(yPred[1])
      n == IF byColumn THEN W ELSE H
      prod == [k \in 1..(H * W) |->
                 LET i == ((k - 1) \div W) + 1
                     j == ((k - 1) % W) + 1
                     pos == IF byColumn THEN j ELSE i
                 IN yPred[i][j] * (2 * (pos - 1) - (n - 1))]
  IN Q(sum(prod), (n - 1) * H * W)

\* meanSquaredError(target, yPred) for target = tf.linspace(0.1, 0.9, W)
\* tiled over the rows: element j of linspace is 0.1 + 0.8(j-1)/(W-1)
rampError(yPred) ==
  LET H == Len(yPred)
      W == Len(yPred[1])
      sq == [k \in 1..(H * W) |->
               LET i == ((k - 1) \div W) + 1
                   j == ((k - 1) % W) + 1
                   d == (W - 1) + 8 * (j - 1) - 10 * (W - 1) * yPred[i][j]
               IN d * d]
  IN Q(sum(sq), 100 * (W - 1) * (W - 1) * H * W)

\* directionX: minus the correlation with the ramp; in the second copy of
\* part_000 the squared error to a ramp image, times 100 inside the helper
directionX(v, yPred) ==
  IF v = "p0b" THEN mul(rampError(yPred), 100, 1)
               ELSE mul(rampCorrelation(yPred, TRUE), -1, 1)

\* directionY (first copy of part_000 only)
directionY(yPred) == mul(rampCorrelation(yPred, FALSE), -1, 1)

preserveHistogram(yTrue, yPred) ==
  meanSquaredError(sort(reshapeFlat(yTrue)), sort(reshapeFlat(yPred)))

\* tf.abs(sortedTrue.sub(sortedPred)).mean()
sortedAbsError(yTrue, yPred) ==
  LET sortedTrue == sort(reshapeFlat(yTrue))
      sortedPred == sort(reshapeFlat(yPred))
  IN mean([i \in 1..Len(sortedTrue) |-> abs(sortedTrue[i] - sortedPred[i])])

\* ... .mul(2.0) inside the helper
strictHistogramPreservation(yTrue, yPred) ==
  mul(sortedAbsError(yTrue, yPred), 2, 1)

\* ------------------------------------------------------------- the world
\* The handlers are operators from world to world, composed as the code
\* calls them.
\* logged holds the entries the handler that ran last prepended to #log-area.
\* settled is what a handler run hands back without keeping it anywhere:
\* the async activations (trainStep, render) and the init call that ended
\* during the run, each with how it ended, the value its caller receives and
\* the tensors it allocated that are still live.
World == [state |-> state, radio |-> radio, heap |-> heap,
          timers |-> timers, renders |-> renders, logged |-> logged,
          settled |-> {}, drawn |-> {}]

Commit(w) ==
  /\ state' = w.state
  /\ radio' = w.radio
  /\ heap' = w.heap
  /\ timers' = w.timers
  /\ renders' = w.renders
  /\ logged' = w.logged
  /\ UNCHANGED <<variant, call>>

\* ---------------------------------------------------------- the optimizers
\* The optimizer a path of trainStep applies: state.optimizer in the copies
\* with one optimizer, its own field in the copy with two.
baselineOptimizerOf(v, st) ==
  IF v = "p0b" THEN st.baselineOptimizer ELSE st.optimizer

studentOptimizerOf(v, st) ==
  IF v = "p0b" THEN st.studentOptimizer ELSE st.optimizer

\* tf.train.adam(): a fresh optimizer, no step taken, no accumulators.
adam == [iterations |-> 0, users |-> {}]

\* optimizer.applyGradients(grads) on the weights of model m: Adam advances
\* its step count and keeps the moment accumulators of what it updated
\* (users: the models whose variables it holds accumulators for).
applyGradients(h, o, m) ==
  [h EXCEPT !.opt[o] = [iterations |-> @.iterations + 1,
                        users |-> @.users \cup {m}],
            !.models[m].updates = @ + 1]

\* ------------------------------------------------------------ the handlers
log(w, kind, isError, text) ==
  [w EXCEPT !.logged = Append(@, [kind |-> kind, isError |-> isError,
                                  text |-> text])]

\* stopAutoTrain that restores the button and forgets the flag
stopAutoTrain_keepsFlag(w) == w

\* stopAutoTrain that also takes back the step that called it
stopAutoTrain_rewindsStep(w) ==
  [w EXCEPT !.state.isAutoTraining = FALSE,
            !.state.step = IF @ > 0 THEN @ - 1 ELSE @]

stopAutoTrain(w) ==
  [w EXCEPT !.state.isAutoTraining = FALSE]

\* an activation ends: ended says how, value holds what its caller receives
\* (nothing: trainStep, render and init have no return value; an async
\* function resolves to undefined), left the tensors it allocated that no
\* tf.tidy or dispose() has freed
settle(w, fn, caller, ended, left) ==
  [w EXCEPT !.settled = @ \cup {[fn |-> fn, caller |-> caller,
                                  ended |-> ended, value |-> <<>>,
                                  left |-> left]}]

\* model.predict(x): the forward pass of model m reads tensor x
predict(h, m, x) ==
  [h EXCEPT !.models[m].reads = @ \cup {x}]

\* render that predicts and draws nothing
render_skipped(w, caller) == w

\* render(), up to its first await: both predictions are computed from
\* state.xInput, basePred.squeeze() makes a tensor of its own that is handed
\* to the first toPixels, and the activation is suspended.  live holds the
\* tensors of the activation that are not disposed.
render(w, caller) ==
  LET h == predict(predict(w.heap, w.state.baselineModel, w.state.xInput),
                   w.state.studentModel, w.state.xInput)
  IN [w EXCEPT
        !.heap = h,
        !.renders = @ (+) SetToBag({[caller |-> caller,
                                     awaiting |-> "baseline",
                                     live |-> {"basePred", "studPred",
                                               "basePred.squeeze()"}]})]

\* One training path (a tf.tidy block of trainStep) on input x.  fail says
\* whether a TensorFlow.js call of the block throws (forward, loss,
\* tf.variableGrads, applyGradients); what a throw inside applyGradients
\* leaves behind is the library's business, the model takes the throw before
\* any update.  tf.tidy disposes every tensor of the block on both exits.
trainPath(h, o, m, x, fail) ==
  IF fail = "none" THEN applyGradients(predict(h, m, x), o, m) ELSE h

\* The archType studentLoss reads from the checked radio button:
\* querySelector(...)?.value || "compression" in docs/app.js,
\* querySelector(...).value (a TypeError on null) in the first copy of
\* part_000; the second copy reads nothing.
studentLossTag(v, r) ==
  IF v = "p0b" THEN [throws |-> FALSE, archType |-> ""]
  ELSE IF r = NoRadio
    THEN (IF v = "docs" THEN [throws |-> FALSE, archType |-> "compression"]
                        ELSE [throws |-> TRUE, archType |-> ""])
    ELSE [throws |-> FALSE, archType |-> r]

\* The weight studentLoss gives the MSE term, in hundredths: by archType in
\* docs/app.js and the first copy of part_000 (the last branch is a plain
\* else), 0.01 in the second copy.
mseWeight(v, archType) ==
  IF v = "p0b" THEN 1
  ELSE IF archType = "compression" THEN 100
  ELSE IF archType = "transformation" THEN 20
  ELSE 50

\* studentLoss(yTrue, yPred) while the radio is r: throws, or the value of
\* lossMSE.add(lossSmooth).add(lossDir)... with the literal weights.
studentLoss(v, r, yTrue, yPred) ==
  LET tag == studentLossTag(v, r)
      lossMSE == mul(mse(yTrue, yPred), mseWeight(v, tag.archType), 100)
      common ==
        add(add(add(add(lossMSE,
                        mul(smoothness(v, yPred), 5, 1)),
                    mul(directionX(v, yPred), 10, 1)),
                mul(preserveHistogram(yTrue, yPred), 50, 1)),
            mul(strictHistogramPreservation(yTrue, yPred), 100, 1))
  IN IF tag.throws THEN [throws |-> TRUE, value |-> Q(0, 1)]
     ELSE [throws |-> FALSE,
           value |->
             IF v = "docs" THEN common
             ELSE IF v = "p0a"
               THEN add(common, mul(directionY(yPred), 5, 1))
             ELSE add(add(lossMSE, mul(smoothness(v, yPred), 1, 2)),
                      mul(directionX(v, yPred), 1, 1))]

\* how the student path of a trainStep can end when the radio is r
studentFailures(v, r) ==
  IF studentLossTag(v, r).throws THEN {"throws"} ELSE {"none", "throws"}

RenderEvery == 5

trainStep(v, w, bFail, sFail) ==
  LET w1 == [w EXCEPT !.state.step = @ + 1] IN
  IF w1.state.studentModel = NullRef
  THEN settle(stopAutoTrain(
                log(w1, "uninit", TRUE,
                    "Error: Student model not initialized properly.")),
              "trainStep", "", "uninit", {})
  ELSE
  LET w2 == [w1 EXCEPT
               !.heap = trainPath(@, baselineOptimizerOf(v, w1.state),
                                  w1.state.baselineModel, w1.state.xInput,
                                  bFail)] IN
  IF bFail # "none"
  THEN \* not inside any try: the promise of trainStep rejects
       settle(w2, "trainStep", "", "rejected", {})
  ELSE
  LET sF == IF studentLossTag(v, w2.radio).throws THEN "throws" ELSE sFail
      w3 == [w2 EXCEPT
               !.heap = trainPath(@, studentOptimizerOf(v, w2.state),
                                  w2.state.studentModel, w2.state.xInput,
                                  sF)] IN
  IF sF # "none"
  THEN settle(stopAutoTrain(
                log(w3, "studentErr", TRUE, "Error in Student Training")),
              "trainStep", "", "studentErr", {})
  ELSE
  LET w4 == log(w3, "step", FALSE, "Step") IN
  IF w4.state.step % RenderEvery = 0 \/ ~w4.state.isAutoTraining
  THEN render(w4, "trainStep")
  ELSE settle(w4, "trainStep", "", "completed", {})

\* disposeOld without the dispose of the optimizer(s)
disposeOld_leaksOptimizer(v, w) ==
  LET st == w.state
      old == {st.baselineModel, st.studentModel} \ {NullRef}
  IN [w EXCEPT !.heap.disposed = @ \cup old,
               !.state.baselineModel = NullRef,
               !.state.studentModel = NullRef]

\* disposeOld that disposes the input tensor with the rest
disposeOld_dropsInput(v, w) ==
  LET st == w.state
      old == {st.baselineModel, st.studentModel, st.optimizer,
              st.baselineOptimizer, st.studentOptimizer, st.xInput}
               \ {NullRef}
  IN [w EXCEPT !.heap.disposed = @ \cup old,
               !.state.baselineModel = NullRef,
               !.state.studentModel = NullRef,
               !.state.optimizer = NullRef,
               !.state.baselineOptimizer = NullRef,
               !.state.studentOptimizer = NullRef,
               !.state.xInput = NullRef]

\* dispose() of what state holds; a null field is skipped.
disposeOld(v, w) ==
  LET st == w.state
      old == {st.baselineModel, st.studentModel, st.optimizer,
              st.baselineOptimizer, st.studentOptimizer} \ {NullRef}
  IN [w EXCEPT !.heap.disposed = @ \cup old,
               !.state.baselineModel = NullRef,
               !.state.studentModel = NullRef,
               !.state.optimizer = NullRef,
               !.state.baselineOptimizer = NullRef,
               !.state.studentOptimizer = NullRef]

\* arg is what the caller passed: a string, or something else (an Event,
\* nothing at all).
StringArg(s) == [isString |-> TRUE, value |-> s]
EventArg == [isString |-> FALSE, value |-> ""]

\* archTypeOf that builds the default architecture whatever was asked for
archTypeOf_alwaysDefault(w, arg) == "compression"

\* The architecture resetModels builds: its argument when that is a
\* non-empty string, else the checked radio button, else "compression".
archTypeOf(w, arg) ==
  LET archType0 == IF arg.isString THEN arg.value ELSE "" IN
  IF archType0 = ""
    THEN (IF w.radio # NoRadio THEN w.radio ELSE "compression")
    ELSE archType0

BaselineInfo ==
  [layers |-> createBaselineModel, arch |-> "baseline",
   via |-> "createBaselineModel", updates |-> 0, reads |-> {}]

\* "Create New Models": the baseline model, then the student model inside
\* try/catch, the catch logging the error and installing createBaselineModel()
\* as the student.
createModels(v, w, archType) ==
  LET g == w.heap.gen
      made == createStudentModel(v, archType)
      bm == Ref(g, "baselineModel")
      sm == Ref(g, "studentModel")
      w1 == IF made.throws
              THEN log(w, "createErr", TRUE,
                       "Error creating model: " \o made.message)
              ELSE w
      studentInfo ==
        IF made.throws
          THEN [BaselineInfo EXCEPT !.arch = archType]
          ELSE [layers |-> made.layers, arch |-> archType,
                via |-> "createStudentModel", updates |-> 0, reads |-> {}]
  IN [w1 EXCEPT !.heap.models = (bm :> BaselineInfo) @@ (sm :> studentInfo),
                !.state.baselineModel = bm,
                !.state.studentModel = sm]

\* createOptimizers that makes optimizers on the first call only and keeps
\* them over later resets
createOptimizers_reusesFirst(v, w) ==
  LET opts == IF v = "p0b"
                THEN {Ref(1, "baselineOptimizer"), Ref(1, "studentOptimizer")}
                ELSE {Ref(1, "optimizer")}
  IN [w EXCEPT
        !.heap.opt = IF w.heap.gen = 1 THEN [o \in opts |-> adam] ELSE @,
        !.state.optimizer =
            IF v = "p0b" THEN NullRef ELSE Ref(1, "optimizer"),
        !.state.baselineOptimizer =
            IF v = "p0b" THEN Ref(1, "baselineOptimizer") ELSE NullRef,
        !.state.studentOptimizer =
            IF v = "p0b" THEN Ref(1, "studentOptimizer") ELSE NullRef]

\* "Create new optimizer": tf.train.adam for state.optimizer, or one each for
\* state.baselineOptimizer and state.studentOptimizer.
createOptimizers(v, w) ==
  LET g == w.heap.gen
      opts == IF v = "p0b"
                THEN {Ref(g, "baselineOptimizer"), Ref(g, "studentOptimizer")}
                ELSE {Ref(g, "optimizer")}
  IN [w EXCEPT
        !.heap.opt = [o \in opts |-> adam],
        !.state.optimizer =
            IF v = "p0b" THEN NullRef ELSE Ref(g, "optimizer"),
        !.state.baselineOptimizer =
            IF v = "p0b" THEN Ref(g, "baselineOptimizer") ELSE NullRef,
        !.state.studentOptimizer =
            IF v = "p0b" THEN Ref(g, "studentOptimizer") ELSE NullRef]

resetModels(v, w, arg) ==
  LET w1 == IF w.state.isAutoTraining THEN stopAutoTrain(w) ELSE w
      archType == archTypeOf(w1, arg)
      w2 == disposeOld(v, w1)
      \* the objects made by this call are those of generation gen + 1
      w3 == createModels(v, [w2 EXCEPT !.heap.gen = @ + 1], archType)
      w4 == [createOptimizers(v, w3) EXCEPT !.state.step = 0]
  IN render(log(w4, "reset", FALSE,
                "Models reset. Student Arch: " \o archType),
            "resetModels")

\* loop without the check of the flag
loop_unchecked(v, w, bFail, sFail) ==
  [trainStep(v, w, bFail, sFail) EXCEPT !.timers = @ + 1]

\* loop that checks the flag again before it schedules the next invocation
loop_checksTwice(v, w, bFail, sFail) ==
  IF w.state.isAutoTraining
  THEN LET w1 == trainStep(v, w, bFail, sFail)
       IN IF w1.state.isAutoTraining
            THEN [w1 EXCEPT !.timers = @ + 1]
            ELSE w1
  ELSE w

loop(v, w, bFail, sFail) ==
  IF w.state.isAutoTraining
  THEN LET w1 == trainStep(v, w, bFail, sFail)
       IN [w1 EXCEPT !.timers = @ + 1]
  ELSE w

toggleAutoTrain(v, w, bFail, sFail) ==
  IF w.state.isAutoTraining
  THEN stopAutoTrain(w)
  ELSE loop(v, [w EXCEPT !.state.isAutoTraining = TRUE], bFail, sFail)

\* ------------------------------------------------------------------ Init
\* The state right after init(): the input exists, resetModels() has run
\* once (its render is awaiting toPixels), the handlers are bound.
EmptyWorld(r) ==
  [state |-> [step |-> 0, isAutoTraining |-> FALSE, xInput |-> NullRef,
              baselineModel |-> NullRef, studentModel |-> NullRef,
              optimizer |-> NullRef, baselineOptimizer |-> NullRef,
              studentOptimizer |-> NullRef],
   radio |-> r,
   heap |-> [gen |-> 0, disposed |-> {}, models |-> <<>>, opt |-> <<>>],
   timers |-> 0,
   renders |-> EmptyBag,
   logged |-> <<>>,
   settled |-> {},
   drawn |-> {}]

\* init(): the fixed input is made, resetModels() runs, the input is drawn
\* through a squeeze()d tensor nobody disposes, the handlers are bound.
init(v, r) ==
  LET w0 == [EmptyWorld(r) EXCEPT !.state.xInput = Ref(0, "xInput")]
      w1 == resetModels(v, w0, EventArg)
  IN settle(log(w1, "init", FALSE, "Initialized. Ready to train."),
            "init", "", "completed", {"xInput.squeeze()"})

\* no loss function is being evaluated on its own
NoCall == [fn |-> "none", yTrue |-> <<>>, yPred |-> <<>>,
           throws |-> FALSE, value |-> Q(0, 1)]

Init ==
  /\ variant \in Variants
  /\ call = NoCall
  /\ \E r \in {NoRadio, "compression"} :
       LET w == init(variant, r) IN
         /\ state = w.state
         /\ radio = w.radio
         /\ heap = w.heap
         /\ timers = w.timers
         /\ renders = w.renders
         /\ logged = w.logged

\* --------------------------------------------------------------- actions
FailPoints == {"none", "throws"}

\* Between two resets every trainStep that does not throw updates the
\* student model once, so step minus its updates counts the throwing ones.
Bounded(w) ==
  /\ w.state.step <= MaxStep
  /\ w.state.studentModel # NullRef =>
       w.state.step - w.heap.models[w.state.studentModel].updates <= MaxFaults
  /\ w.heap.gen <= MaxGen
  /\ w.timers <= MaxTimers
  /\ BagCardinality(w.renders) <= MaxRenders
  /\ w.timers + BagCardinality(w.renders) <= MaxPending

Begin == [World EXCEPT !.logged = <<>>]

Do(w) == Bounded(w) /\ Commit(w)

\* the Train button: trainStep()
TrainClick(b, s) ==
  /\ state.step < MaxStep
  /\ s \in studentFailures(variant, radio)
  /\ Do(trainStep(variant, Begin, b, s))

ClickTrain ==
  \E b \in FailPoints, s \in FailPoints : TrainClick(b, s)

\* the Auto Train button: toggleAutoTrain()
AutoClick(b, s) ==
  /\ state.isAutoTraining \/ state.step < MaxStep
  /\ s \in studentFailures(variant, radio)
  /\ Do(toggleAutoTrain(variant, Begin, b, s))

ClickAuto ==
  \E b \in FailPoints, s \in FailPoints : AutoClick(b, s)

\* the Reset button: resetModels receives the click Event
ClickReset ==
  /\ heap.gen < MaxGen
  /\ Do(resetModels(variant, Begin, EventArg))

\* the radio button of value val gets checked: resetModels(e.target.value)
RadioChangeTo(val) ==
  /\ val # radio
  /\ Do(resetModels(variant, [Begin EXCEPT !.radio = val], StringArg(val)))

RadioChange ==
  \E val \in RadioValues : RadioChangeTo(val)

\* a pending setTimeout(loop, autoTrainSpeed) fires
TimerFire(b, s) ==
  /\ timers > 0
  /\ s \in studentFailures(variant, radio)
  /\ Do(loop(variant, [Begin EXCEPT !.timers = @ - 1], b, s))

TimerFires ==
  \E b \in FailPoints, s \in FailPoints : TimerFire(b, s)

\* the tensor a suspended render has handed to tf.browser.toPixels
handed(r) ==
  IF r.awaiting = "baseline" THEN "basePred.squeeze()"
                             ELSE "studPred.squeeze()"

\* the activation awaiting render r ends with it: trainStep goes on to
\* updateLossDisplay and returns, or rejects as render did
renderSettles(w, r, ended, left) ==
  LET w1 == settle(w, "render", r.caller, ended, left)
  IN IF r.caller = "trainStep"
       THEN settle(w1, "trainStep", "", ended, left)
       ELSE w1

\* toPixels has drawn the tensor render r handed to it on its canvas
draw(w, r) ==
  [w EXCEPT !.drawn = @ \cup {[canvas |-> r.awaiting, caller |-> r.caller]}]

\* A toPixels awaited by a render resolves, the image is on the canvas.
\* After the first one studPred.squeeze() is made and the second is started;
\* after the second basePred and studPred are disposed and render returns.
renderResume(w, r) ==
  LET rest == w.renders (-) SetToBag({r})
      w1 == draw(w, r)
  IN
  IF r.awaiting = "baseline"
  THEN [w1 EXCEPT !.renders =
          rest (+) SetToBag({[r EXCEPT
                                !.awaiting = "student",
                                !.live = @ \cup {"studPred.squeeze()"}]})]
  ELSE renderSettles([w1 EXCEPT !.renders = rest], r, "completed",
                     r.live \ {"basePred", "studPred"})

ToPixelsResolves ==
  \E r \in BagToSet(renders) : Do(renderResume(Begin, r))

\* A toPixels awaited by a render rejects: render rejects, and with it the
\* trainStep awaiting it; nobody handles the rejection.
renderReject(w, r) ==
  renderSettles([w EXCEPT !.renders = @ (-) SetToBag({r})], r, "rejected",
                r.live)

ToPixelsRejects ==
  \E r \in BagToSet(renders) : Do(renderReject(Begin, r))

Next ==
  \/ ClickTrain
  \/ ClickAuto
  \/ ClickReset
  \/ RadioChange
  \/ TimerFires
  \/ ToPixelsResolves
  \/ ToPixelsRejects

Spec == Init /\ [][Next]_vars

\* ------------------------------------------------- the loss functions alone
\* The loss functions are pure: they are applied once to arguments drawn
\* from bounded sets, in the program as init() leaves it.
Pixels == 0..MaxPixel

\* tensors of MaxLen elements
Tensors == {<<s>> : s \in [1..MaxLen -> Pixels]}

\* images of MaxSide rows and columns: columns alternate between a and b,
\* every row after the first is brighter by c
image(a, b, c) ==
  [i \in 1..MaxSide |->
     [j \in 1..MaxSide |->
        (IF j % 2 = 1 THEN a ELSE b) + (IF i = 1 THEN 0 ELSE c)]]

Images == {image(a, b, c) : a \in Pixels, b \in Pixels, c \in Pixels}

Loaded(v, r) ==
  LET w == init(v, r) IN
    /\ variant = v
    /\ state = w.state
    /\ radio = w.radio
    /\ heap = w.heap
    /\ timers = w.timers
    /\ renders = w.renders
    /\ logged = w.logged

Applied(fn, throws, value) ==
  /\ call' = [call EXCEPT !.fn = fn, !.throws = throws, !.value = value]
  /\ UNCHANGED <<variant, state, radio, heap, timers, renders, logged>>

LossInit ==
  /\ \E v \in Variants, r \in RadioValues \cup {NoRadio} : Loaded(v, r)
  /\ \E t \in Images, p \in Images :
       call = [NoCall EXCEPT !.yTrue = t, !.yPred = p]

EvalStudentLoss ==
  /\ call.fn = "none"
  /\ LET out == studentLoss(variant, radio, call.yTrue, call.yPred)
     IN Applied("studentLoss", out.throws, out.value)

EvalDirectionX ==
  /\ call.fn = "none"
  /\ Applied("directionX", FALSE, directionX(variant, call.yPred))

LossNext == EvalStudentLoss \/ EvalDirectionX

LossSpec == LossInit /\ [][LossNext]_vars

HistInit ==
  /\ Loaded("docs", "compression")
  /\ \E t \in Tensors, p \in Tensors :
       call = [NoCall EXCEPT !.yTrue = t, !.yPred = p]

EvalPreserveHistogram ==
  /\ call.fn = "none"
  /\ Applied("preserveHistogram", FALSE,
             preserveHistogram(call.yTrue, call.yPred))

EvalStrictHistogramPreservation ==
  /\ call.fn = "none"
  /\ Applied("strictHistogramPreservation", FALSE,
             strictHistogramPreservation(call.yTrue, call.yPred))

HistNext == EvalPreserveHistogram \/ EvalStrictHistogramPreservation

HistSpec == HistInit /\ [][HistNext]_vars

\* ---------------------------------------------------------------- helpers
\* the handler runs possible in the current state, as worlds
HandlerRuns ==
  {trainStep(variant, Begin, b, s) :
     b \in FailPoints, s \in studentFailures(variant, radio)}
  \cup {toggleAutoTrain(variant, Begin, b, s) :
           b \in FailPoints, s \in studentFailures(variant, radio)}
  \cup {loop(variant, [Begin EXCEPT !.timers = @ - 1], b, s) :
           b \in FailPoints,
           s \in IF timers > 0 THEN studentFailures(variant, radio) ELSE {}}
  \cup {resetModels(variant, Begin, EventArg)}
  \cup {resetModels(variant, [Begin EXCEPT !.radio = val], StringArg(val)) :
           val \in RadioValues \ {radio}}
  \cup {renderResume(Begin, r) : r \in BagToSet(renders)}
  \cup {renderReject(Begin, r) : r \in BagToSet(renders)}

\* the images drawn on the canvases in this step
Drawn ==
  UNION {w.drawn : w \in {x \in HandlerRuns : Commit(x)}}

\* the activations of function fn that ended in this step
Ended(fn) ==
  UNION {{a \in w.settled : a.fn = fn} : w \in {x \in HandlerRuns : Commit(x)}}

\* a trainStep ran in this step, its baseline path failing as b says and its
\* student path as s says (from the Train button, from toggleAutoTrain
\* starting auto-run, or from a timer callback finding auto-run on)
StepRan(b, s) ==
  /\ state'.step = state.step + 1
  /\ \/ TrainClick(b, s)
     \/ ~state.isAutoTraining /\ AutoClick(b, s)
     \/ state.isAutoTraining /\ TimerFire(b, s)

\* resetModels ran in this step (nothing else allocates a generation)
ResetRan == heap'.gen # heap.gen /\ (ClickReset \/ RadioChange)

HasLogged(kind) == \E i \in DOMAIN logged : logged[i].kind = kind

updatesOf(h, m) == h.models[m].updates

LiveRefs(st) ==
  {st.baselineModel, st.studentModel, st.optimizer, st.baselineOptimizer,
   st.studentOptimizer} \ {NullRef}

\* ------------------------------------------------------------------ C1
\* C1: the baseline path and the student path of trainStep apply two
\* distinct optimizer objects: no optimizer holds accumulators of both
\* models, and the step counter of the optimizer applied to the student
\* advances by 1 per trainStep, so it never exceeds state.step.
C1_OwnOptimizerPerPath ==
  /\ \A o \in DOMAIN heap.opt : Cardinality(heap.opt[o].users) <= 1
  /\ heap.opt[studentOptimizerOf(variant, state)].iterations <= state.step

\* ------------------------------------------------------------------ C2
\* what resetModels leaves behind, whatever the state it was called in
ResetPost ==
  /\ ~state'.isAutoTraining
  /\ state'.step = 0
  /\ LiveRefs(state) \subseteq heap'.disposed
  /\ state'.baselineModel # NullRef
  /\ state'.studentModel # NullRef
  /\ baselineOptimizerOf(variant, state') # NullRef
  /\ studentOptimizerOf(variant, state') # NullRef
  /\ LiveRefs(state') \cap heap'.disposed = {}
  /\ LiveRefs(state') \cap LiveRefs(state) = {}
  /\ \A r \in LiveRefs(state') : r.gen > heap.gen
  /\ \A m \in DOMAIN heap'.models : heap'.models[m].updates = 0
  /\ \A o \in DOMAIN heap'.opt : heap'.opt[o] = adam

\* C2: after resetModels returns, from any reachable state, isAutoTraining
\* is false, step is 0, the previous models and optimizer(s) are disposed,
\* and state holds fresh models and optimizer(s), none of them a previous
\* object.
C2_ResetPostcondition == [][ResetRan => ResetPost]_vars

\* a reset has run while a render was in flight and a loop callback pending
C2_Witness ==
  /\ heap.gen > 1
  /\ state.step = 0
  /\ HasLogged("reset")
  /\ BagCardinality(renders) > 1
  /\ timers > 0

\* ------------------------------------------------------------------ C3
\* resetModels ran in this step with an archType outside the three tags
ResetRanWithUnknownTag ==
  /\ heap'.gen # heap.gen
  /\ RadioChangeTo(UnknownTag)

\* C3: resetModels with an unrecognized tag raises and leaves the active
\* models, the optimizer state and the step counter as they were: nothing
\* disposed, nothing replaced, step not zeroed.
C3_UnknownTagLeavesState ==
  [][ResetRanWithUnknownTag => (state' = state /\ heap' = heap)]_vars

\* ------------------------------------------------------------------ C4
\* C4: the student model in state was always built by createStudentModel
\* for one of the three tags: a tag outside them fails with an error,
\* and nothing else is installed in its place.
C4_OnlyRecognizedStudentInstalled ==
  state.studentModel # NullRef =>
    LET m == heap.models[state.studentModel] IN
      /\ m.arch \in Tags
      /\ m.via = "createStudentModel"
      /\ m.layers # <<>>

\* ------------------------------------------------------------------ C5
\* C5: a trainStep whose student path throws catches the exception, logs an
\* error entry, returns with isAutoTraining false, and starts no render.
C5_StudentFailureStops ==
  [][StepRan("none", "throws") =>
       /\ ~state'.isAutoTraining
       /\ \E i \in DOMAIN logged' :
            logged'[i].kind = "studentErr" /\ logged'[i].isError
       /\ renders' = renders]_vars

\* a student failure after the baseline update of the same step
C5_Witness ==
  /\ HasLogged("studentErr")
  /\ ~state.isAutoTraining
  /\ updatesOf(heap, state.baselineModel) = state.step
  /\ updatesOf(heap, state.studentModel) < state.step

\* ------------------------------------------------------------------ C6
\* C6: every error raised during a trainStep (baseline path, student path,
\* or the render it awaits) is logged and leaves isAutoTraining false.
C6_EveryErrorHalts ==
  [][(\/ \E b, s \in FailPoints :
           <<b, s>> # <<"none", "none">> /\ StepRan(b, s)
      \/ \E r \in BagToSet(renders) :
           /\ r.caller = "trainStep"
           /\ renders' = renders (-) SetToBag({r})
           /\ Do(renderReject(Begin, r)))
     => /\ ~state'.isAutoTraining
        /\ \E i \in DOMAIN logged' : logged'[i].isError]_vars

\* ------------------------------------------------------------------ C7
\* C7: within one trainStep a failing student path leaves the baseline
\* update of that step in place, and a failing baseline path does not keep
\* the student model from its update of that step.
C7_PathsIndependent ==
  [][\A b, s \in FailPoints :
       StepRan(b, s) =>
         /\ (b = "none" /\ s = "throws") =>
               updatesOf(heap', state.baselineModel)
                 = updatesOf(heap, state.baselineModel) + 1
         /\ (b = "throws" /\ s = "none") =>
               updatesOf(heap', state.studentModel)
                 = updatesOf(heap, state.studentModel) + 1]_vars

\* ------------------------------------------------------------------ C8
\* C8: while auto-run is off and is not started again, no trainStep is
\* started by the loop: a timer callback that fires only consumes itself,
\* and awaited renders still complete.
C8_StoppedLoopIsInert ==
  [][~state.isAutoTraining =>
       /\ TimerFires =>
            /\ timers' = timers - 1
            /\ state' = state
            /\ heap' = heap
            /\ renders' = renders
            /\ logged' = <<>>
       /\ (~ClickAuto /\ ~ClickTrain) =>
            /\ ~state'.isAutoTraining
            /\ state'.step \in {state.step, 0}
            /\ \A m \in DOMAIN heap.models \cap DOMAIN heap'.models :
                 updatesOf(heap', m) = updatesOf(heap, m)
            /\ timers' <= timers
       /\ renders # EmptyBag => ENABLED ToPixelsResolves]_vars

\* auto-run was stopped with a step still awaiting its render and a loop
\* callback pending
C8_Witness ==
  /\ ~state.isAutoTraining
  /\ timers > 0
  /\ state.step > 1
  /\ \E r \in BagToSet(renders) : r.caller = "trainStep"

\* ------------------------------------------------------------------ C9
\* loop ran in this step and found auto-run on
LoopRanStep(b, s) ==
  /\ state'.step = state.step + 1
  /\ \/ state.isAutoTraining /\ TimerFire(b, s)
     \/ ~state.isAutoTraining /\ AutoClick(b, s)

\* setTimeout calls of this step (a firing callback consumes one timer)
Scheduled ==
  IF \E b, s \in FailPoints : TimerFire(b, s)
    THEN timers' - (timers - 1)
    ELSE timers' - timers

callerOf(r) == r.caller

LiveTrainSteps == CopiesIn("trainStep", BagOfAll(callerOf, renders))

\* C10: a trainStep begins only after the render of the previous one has
\* completed, so at most one trainStep activation is live at any time.
C10_OneLiveTrainStep == LiveTrainSteps <= 1

\* ----------------------------------------------------------------- C11
\* C11: every applyGradients call applies an optimizer made by the
\* resetModels call that made the model it updates: an optimizer holds
\* accumulators only for models of its own reset, it is not disposed while
\* state holds it, and state never pairs an optimizer with a model of another
\* reset.
C11_OptimizerOfSameReset ==
  /\ \A o \in DOMAIN heap.opt :
       \A m \in heap.opt[o].users : m.gen = o.gen /\ m \in DOMAIN heap.models
  /\ \A r \in LiveRefs(state) : r.gen = heap.gen /\ r \notin heap.disposed

\* both models were updated after a reset that ran with a render in flight
\* and a loop callback pending
C11_Witness ==
  /\ heap.gen > 1
  /\ timers > 0
  /\ BagCardinality(renders) > 1
  /\ updatesOf(heap, state.baselineModel) > 0
  /\ updatesOf(heap, state.studentModel) > 0
  /\ \A o \in DOMAIN heap.opt : heap.opt[o].users # {}

\* ----------------------------------------------------------------- C12
\* C12: when resetModels has run for a recognized tag (the tag of the checked
\* radio button), also after training under another tag, the student model
\* is the one createStudentModel builds for that tag, its first dense layer
\* takes the 16*16*1 = 256 flattened inputs, no model has been updated, the
\* optimizers have taken no step and hold no accumulators, and step is 0.
C12_SwitchYieldsFreshStudent ==
  (HasLogged("reset") /\ radio \in Tags) =>
    LET m == heap.models[state.studentModel] IN
      /\ m.arch = radio
      /\ m.via = "createStudentModel"
      /\ m.layers = createStudentModel(variant, radio).layers
      /\ m.layers # <<>>
      /\ inputDim(m.layers, 1) = 256
      /\ m.updates = 0
      /\ heap.opt[studentOptimizerOf(variant, state)] = adam
      /\ heap.opt[baselineOptimizerOf(variant, state)] = adam
      /\ state.step = 0

\* expansion was selected while auto-run was training the student built by
\* init (its loop callback is still pending)
C12_Witness ==
  /\ HasLogged("reset")
  /\ heap.gen > 1
  /\ radio = "expansion"
  /\ heap.models[state.studentModel].arch = "expansion"
  /\ Len(heap.models[state.studentModel].layers) = 3
  /\ Ref(1, "studentModel") \in heap.disposed
  /\ timers > 0

\* ----------------------------------------------------------------- C13
\* C13: when a trainStep call has ended, its render included, whether it
\* completed or failed, no tensor allocated during it is still live: not the
\* predictions, loss terms and gradients of the two training blocks, not the
\* predictions made in render, not the squeezed tensors passed to toPixels.
C13_StepLeavesNoTensor ==
  [][\A a \in Ended("trainStep") : a.left = {}]_vars

\* ----------------------------------------------------------------- C14
\* C14: every tensor render hands to tf.browser.toPixels is live when handed
\* over, and once render has ended (the sink having consumed or rejected,
\* with or without a resetModels in between) the tensors handed over and both
\* predictions are disposed.
C14_SinkTensorsLiveThenDisposed ==
  [][/\ \A r \in BagToSet(renders') : handed(r) \in r.live
     /\ \A a \in Ended("render") :
          a.left \cap {"basePred", "studPred", "basePred.squeeze()",
                       "studPred.squeeze()"} = {}]_vars

\* ----------------------------------------------------------------- C15
\* C15: a trainStep that completes without error has updated the baseline
\* model exactly once and the student model exactly once, and its caller
\* receives both loss values.
C15_StepUpdatesBothAndYieldsLosses ==
  [][/\ StepRan("none", "none") =>
          /\ updatesOf(heap', state.baselineModel)
               = updatesOf(heap, state.baselineModel) + 1
          /\ updatesOf(heap', state.studentModel)
               = updatesOf(heap, state.studentModel) + 1
     /\ \A a \in Ended("trainStep") :
          a.ended = "completed" =>
            a.value = <<"baselineLossVal", "studentLossVal">>]_vars

\* ----------------------------------------------------------------- C16
\* C16: state.step never decreases between two resets: it changes only by
\* resetModels setting it to 0 and by a trainStep adding exactly 1, and in
\* every reachable state a trainStep invocation adds 1 however it ends (both
\* paths succeeding, the baseline path throwing, the student path throwing).
C16_StepCountsEveryInvocation ==
  /\ [](\A b \in FailPoints, s \in FailPoints :
          trainStep(variant, World, b, s).state.step = state.step + 1)
  /\ [][/\ \/ state'.step = state.step
            \/ state'.step = state.step + 1
            \/ (heap'.gen # heap.gen /\ state'.step = 0)
         /\ heap'.gen # heap.gen => state'.step = 0]_vars

\* the second trainStep since the reset failed in its student path and was
\* counted all the same
C16_Witness ==
  /\ HasLogged("studentErr")
  /\ state.step > 1
  /\ updatesOf(heap, state.studentModel) = state.step - 1
  /\ updatesOf(heap, state.baselineModel) = state.step

\* ----------------------------------------------------------------- C17
\* C17: state.xInput is the tensor init made, it is never disposed or
\* replaced, and every forward pass of either model (both paths of trainStep,
\* both predictions of render) has read that tensor and no other.
C17_InputFixedAndShared ==
  /\ state.xInput = Ref(0, "xInput")
  /\ state.xInput \notin heap.disposed
  /\ \A m \in DOMAIN heap.models : heap.models[m].reads = {state.xInput}

\* both models were trained on the input after a reset and a stopped auto-run,
\* with renders awaiting
C17_Witness ==
  /\ heap.gen > 1
  /\ heap.disposed # {}
  /\ state.step > 1
  /\ updatesOf(heap, state.baselineModel) > 1
  /\ updatesOf(heap, state.studentModel) > 1
  /\ ~state.isAutoTraining
  /\ timers > 0
  /\ renders # EmptyBag

\* ----------------------------------------------------------------- C18
\* C18: a student loss evaluated while the architecture tag is missing or not
\* one of the three recognized tags fails, no weight of another tag standing
\* in: so a trainStep whose student path succeeded (it logged a "step" entry)
\* ran with a recognized tag checked.
C18_LossRejectsUnknownTag ==
  HasLogged("step") => radio \in Tags

\* ----------------------------------------------------------------- C19
\* the literal weights of studentLoss, by term
weightTable(v, archType) ==
  IF v = "p0b"
    THEN [mse |-> Q(mseWeight(v, archType), 100), smooth |-> Q(1, 2),
          dirX |-> Q(1, 1), dirY |-> Q(0, 1), soft |-> Q(0, 1),
          strict |-> Q(0, 1)]
    ELSE [mse |-> Q(mseWeight(v, archType), 100), smooth |-> Q(5, 1),
          dirX |-> Q(10, 1), dirY |-> Q(IF v = "p0a" THEN 5 ELSE 0, 1),
          soft |-> Q(50, 1), strict |-> Q(100, 1)]

\* the terms on their own, before any factor
bareTerms(v, yTrue, yPred) ==
  [mse |-> mse(yTrue, yPred),
   smooth |-> totalVariation(yPred),
   dirX |-> IF v = "p0b" THEN rampError(yPred)
                         ELSE mul(rampCorrelation(yPred, TRUE), -1, 1),
   dirY |-> mul(rampCorrelation(yPred, FALSE), -1, 1),
   soft |-> preserveHistogram(yTrue, yPred),
   strict |-> sortedAbsError(yTrue, yPred)]

weightedSum(w, t) ==
  LET term(k) == mul(t[k], w[k].num, w[k].den)
  IN add(add(add(add(add(term("mse"), term("smooth")), term("dirX")),
                 term("dirY")), term("soft")), term("strict"))

\* C19: the value studentLoss returns is the sum of the reconstruction,
\* smoothness, directional, soft and strict distribution terms of the same
\* pair, each times its weight in the table of the tag, no term carrying a
\* further factor from inside its helper.
C19_LossIsWeightedSumOfTerms ==
  (call.fn = "studentLoss" /\ ~call.throws) =>
    call.value =
      weightedSum(weightTable(variant,
                              studentLossTag(variant, radio).archType),
                  bareTerms(variant, call.yTrue, call.yPred))

\* ----------------------------------------------------------------- C20
RECURSIVE count(_, _)
count(x, s) ==
  IF s = <<>> THEN 0
  ELSE (IF Head(s) = x THEN 1 ELSE 0) + count(x, Tail(s))

\* the elements of p are those of t in some order
IsPermutation(t, p) ==
  LET a == reshapeFlat(t)
      b == reshapeFlat(p)
  IN Len(a) = Len(b) /\ \A x \in Pixels : count(x, a) = count(x, b)

\* C20: for a prediction whose elements are a permutation of those of the
\* target, preserveHistogram and strictHistogramPreservation return 0.
C20_PermutationCostsNothing ==
  (call.fn \in {"preserveHistogram", "strictHistogramPreservation"}
     /\ IsPermutation(call.yTrue, call.yPred))
    => call.value = Q(0, 1)

\* both terms were applied to a target of three different values and a
\* prediction that reorders them
C20_Witness ==
  /\ call.fn \in {"preserveHistogram", "strictHistogramPreservation"}
  /\ call.yTrue = <<<<0, 1, 2>>>>
  /\ call.yPred = <<<<2, 0, 1>>>>
  /\ call.value = Q(0, 1)

\* ----------------------------------------------------------------- C21
\* a < b for two tensor values
less(a, b) == a.num * b.den < b.num * a.den

\* every pixel is darker than its right neighbour
IncreasingAlongX(p) ==
  \A i \in 1..Len(p) : \A j \in 1..(Len(p[i]) - 1) : p[i][j] < p[i][j + 1]

\* the image of the shape of p whose pixels all have the value m
uniform(p, m) == [i \in 1..Len(p) |-> [j \in 1..Len(p[i]) |-> m]]

\* C21: directionX of a prediction that increases strictly from left to
\* right is strictly smaller than directionX of the uniform prediction of
\* the same mean value.
C21_IncreasingBeatsUniform ==
  LET p == call.yPred
      m == mean(reshapeFlat(p))
  IN (call.fn = "directionX" /\ IncreasingAlongX(p) /\ m.den = 1)
       => less(call.value, directionX(variant, uniform(p, m.num)))

\* ----------------------------------------------------------------- C22
\* units of the hidden layers (all dense layers but the last) of the student
\* createStudentModel builds for a tag
RECURSIVE hiddenUnits(_)
hiddenUnits(layers) ==
  IF Len(layers) <= 1 THEN 0
  ELSE Head(layers).units + hiddenUnits(Tail(layers))

capacity(v, tag) == hiddenUnits(createStudentModel(v, tag).layers)

\* C22: the weight studentLoss gives the MSE term under a tag is larger than
\* the weight it gives under every tag of larger capacity: compression >
\* transformation > expansion.
C22_WeightFallsWithCapacity ==
  (call.fn = "studentLoss" /\ ~call.throws /\ radio \in Tags) =>
    \A b \in Tags :
      capacity(variant, radio) < capacity(variant, b)
        => mseWeight(variant, studentLossTag(variant, radio).archType)
             > mseWeight(variant, b)

\* ----------------------------------------------------------------- C23
\* the dense layers named for each tag, between flatten and reshape
namedLayers(tag) ==
  IF tag = "compression"
    THEN <<Dense(128, "relu"), Dense(256, "sigmoid")>>
  ELSE IF tag = "transformation"
    THEN <<Dense(256, "relu"), Dense(256, "sigmoid")>>
  ELSE <<Dense(512, "relu"), Dense(512, "relu"), Dense(256, "sigmoid")>>

\* C23: the student of a recognized tag has exactly the dense layers named
\* for the tag, and its last layer has as many units as the input has
\* elements, so that reshape gives back the geometry [16, 16, 1].
C23_StudentHasNamedLayers ==
  \A m \in DOMAIN heap.models :
    LET info == heap.models[m] IN
      (info.via = "createStudentModel" /\ info.arch \in Tags) =>
        /\ info.layers = namedLayers(info.arch)
        /\ info.layers[Len(info.layers)].units = flatten(inputShapeModel)

\* ----------------------------------------------------------------- C24
\* Two sessions side by side. What a session holds is determined by what
\* it was built from: the input tensor, the tag, the kernels its layers'
\* initializers drew, and the number of updates applied since.
Draws == 0..MaxDraw

\* tf.sequential() with dense layers: the default initializer and heNormal
\* draw the kernels, no seed is given
built(layers, kernels) ==
  [layers |-> layers, kernels |-> kernels, updates |-> 0]

\* the session the g-th resetModels leaves, for the draws kb and ks of the
\* two models
sessionReset(v, x, tag, g, kb, ks) ==
  [xInput |-> x,
   gen |-> g,
   baselineModel |-> built(createBaselineModel, kb),
   studentModel |-> built(createStudentModel(v, tag).layers, ks),
   step |-> 0,
   losses |-> <<>>]

\* the loss a model reports: a function of its parameters and the input
reported(m, x) == [of |-> m, on |-> x]

\* trainStep without a failure: both models updated, the losses logged
sessionStep(s) ==
  LET b == [s.baselineModel EXCEPT !.updates = @ + 1]
      t == [s.studentModel EXCEPT !.updates = @ + 1]
  IN [s EXCEPT !.baselineModel = b, !.studentModel = t,
               !.step = @ + 1,
               !.losses = <<reported(b, s.xInput), reported(t, s.xInput)>>]

PairInit ==
  /\ \E v \in Variants, tag \in Tags : Loaded(v, tag)
  /\ \E x \in Pixels, ka \in Draws, kb \in Draws, kc \in Draws, kd \in Draws :
       call = [fn |-> "sessions",
               a |-> sessionReset(variant, x, radio, 1, ka, kb),
               b |-> sessionReset(variant, x, radio, 1, kc, kd)]

PairStep ==
  /\ call.a.step < MaxStep
  /\ call' = [call EXCEPT !.a = sessionStep(@), !.b = sessionStep(@)]
  /\ UNCHANGED <<variant, state, radio, heap, timers, renders, logged>>

PairReset ==
  /\ call.a.gen < MaxGen
  /\ \E ka \in Draws, kb \in Draws, kc \in Draws, kd \in Draws :
       LET x == call.a.xInput
           g == call.a.gen + 1
       IN call' = [call EXCEPT
                     !.a = sessionReset(variant, x, radio, g, ka, kb),
                     !.b = sessionReset(variant, x, radio, g, kc, kd)]
  /\ UNCHANGED <<variant, state, radio, heap, timers, renders, logged>>

PairNext == PairStep \/ PairReset

PairSpec == PairInit /\ [][PairNext]_vars

\* C24: two sessions with the same input and tag, after the same
\* operations, hold the same parameters and have reported the same losses.
C24_SessionsAgree ==
  /\ call.a.baselineModel = call.b.baselineModel
  /\ call.a.studentModel = call.b.studentModel
  /\ call.a.losses = call.b.losses

\* ----------------------------------------------------------------- C26
\* C26: at every moment at most one setTimeout(loop) callback is pending,
\* whatever the sequence of toggleAutoTrain and resetModels calls.
C26_SingleTimerChain == timers <= 1

\* ----------------------------------------------------------------- C27
\* the student path of the trainStep that just ran got as far as studentLoss
StudentLossEvaluated == HasLogged("step") \/ HasLogged("studentErr")

\* C27: whenever studentLoss is evaluated (in the copies where it reads the
\* checked radio), it gets a tag, and that tag is the one the current
\* student model was built for by the last resetModels; also when no radio
\* is checked.
C27_LossTagIsModelTag ==
  (variant # "p0b" /\ StudentLossEvaluated) =>
    LET tag == studentLossTag(variant, radio) IN
      /\ ~tag.throws
      /\ tag.archType = heap.models[state.studentModel].arch

\* ----------------------------------------------------------------- C28
\* A trainStep counts itself in state.step before it renders and only
\* resetModels sets state.step to 0, so an image drawn for a render of a
\* trainStep while state.step is 0 was computed before the last reset.
\* C28: no image drawn on the baseline or the student canvas comes from a
\* render that was started before the last resetModels.
C28_NoStaleDraw ==
  [][\A d \in Drawn : d.caller = "trainStep" => state.step > 0]_vars

\* ----------------------------------------------------------------- C29
\* C29 as first stated, the part about manual steps: every click on Train
\* whose trainStep succeeds starts a render.
C29_EveryManualStepRenders ==
  [][((\E b \in FailPoints, s \in FailPoints : TrainClick(b, s))
        /\ \E i \in DOMAIN logged' : logged'[i].kind = "step")
       => LiveTrainSteps' = LiveTrainSteps + 1]_vars

\* C29: in every reachable state a trainStep starts a render exactly when
\* both its paths succeed and the step count it has just reached is a
\* multiple of 5 or auto-run is off; a step that fails starts none.
C29_RendersIffDueOrManual ==
  \A b \in FailPoints, s \in studentFailures(variant, radio) :
    LET w == trainStep(variant, World, b, s) IN
      (w.renders # renders)
        <=> /\ state.studentModel # NullRef
            /\ b = "none"
            /\ s = "none"
            /\ (state.step + 1) % 5 = 0 \/ ~state.isAutoTraining

\* an auto-run step succeeded on a count that is no multiple of 5 and
\* started no render
C29_Witness ==
  /\ HasLogged("step")
  /\ state.isAutoTraining
  /\ state.step % 5 # 0
  /\ timers > 0
  /\ renders = EmptyBag

\* ----------------------------------------------------------------- C30
\* The Titanic classifier page (part_006).  Its globals and buttons, from
\* preprocessing on: model is 0 for null, else the number of the model
\* createModel built; fits holds, for every trainModel call awaiting
\* model.fit, the model it called fit on; trainingHistory and
\* validationPredictions name the model they come from.  Whether the
\* buttons start disabled is written in the page, not in the script.
page(createBtn, trainBtn) ==
  [fn |-> "titanic",
   preprocessedTrainData |-> FALSE,
   createBtn |-> createBtn,
   trainBtn |-> trainBtn,
   predictBtn |-> FALSE,
   model |-> 0,
   made |-> 0,
   disposed |-> {},
   fits |-> EmptyBag,
   trainingHistory |-> 0,
   validationPredictions |-> 0,
   status |-> ""]

\* preprocessData, with the data loaded, to its end
preprocessData(t) ==
  [t EXCEPT !.preprocessedTrainData = TRUE, !.createBtn = TRUE]

\* createModel: the model in place is disposed, a new one built and compiled,
\* the train button enabled
createModel(t) ==
  IF ~t.preprocessedTrainData THEN t   \* alert, return
  ELSE [t EXCEPT !.disposed = IF t.model # 0 THEN @ \cup {t.model} ELSE @,
                 !.made = @ + 1,
                 !.model = t.made + 1,
                 !.trainBtn = TRUE]

\* trainModel to its await: the tensors are made and model.fit is called on
\* the global model; a throw on the way is caught and reported
trainModel(t, fail) ==
  IF t.model = 0 \/ ~t.preprocessedTrainData THEN t   \* alert, return
  ELSE IF fail # "none"
    THEN [t EXCEPT !.status = "Error during training"]
  ELSE [t EXCEPT !.status = "Training model...",
                 !.fits = @ (+) SetToBag({t.model})]

\* the fit on model f resolves: trainModel goes on with the global model as
\* it is now (model.predict), enables the predict button and reports
fitResolves(t, f) ==
  [t EXCEPT !.fits = @ (-) SetToBag({f}),
            !.trainingHistory = f,
            !.validationPredictions = t.model,
            !.predictBtn = TRUE,
            !.status = "Training completed successfully!"]

\* the fit on model f rejects: the catch reports
fitRejects(t, f) ==
  [t EXCEPT !.fits = @ (-) SetToBag({f}),
            !.status = "Error during training"]

Shown(t) ==
  /\ call' = t
  /\ UNCHANGED <<variant, state, radio, heap, timers, renders, logged>>

TitanicInit ==
  /\ Loaded("docs", "compression")
  /\ \E c \in BOOLEAN, t \in BOOLEAN : call = page(c, t)

PreprocessDone ==
  /\ ~call.preprocessedTrainData
  /\ Shown(preprocessData(call))

ClickCreateModel ==
  /\ call.createBtn
  /\ call.made < MaxModels
  /\ Shown(createModel(call))

ClickTrainModel ==
  /\ call.trainBtn
  /\ BagCardinality(call.fits) < MaxFits
  /\ \E fail \in FailPoints : Shown(trainModel(call, fail))

FitResolves ==
  /\ call.fits # EmptyBag
  /\ \E f \in BagToSet(call.fits) : Shown(fitResolves(call, f))

FitRejects ==
  /\ call.fits # EmptyBag
  /\ \E f \in BagToSet(call.fits) : Shown(fitRejects(call, f))

TitanicNext ==
  \/ PreprocessDone
  \/ ClickCreateModel
  \/ ClickTrainModel
  \/ FitResolves
  \/ FitRejects

TitanicSpec == TitanicInit /\ [][TitanicNext]_vars

\* C30: while a trainModel call awaits model.fit, the model it is fitting is
\* the global model and is not disposed, and no second trainModel call is
\* awaiting a fit.
C30_FitKeepsItsModel ==
  /\ \A f \in BagToSet(call.fits) : f = call.model /\ f \notin call.disposed
  /\ BagCardinality(call.fits) <= 1

====
